---- MODULE Spec2Model ----
(***************************************************************************)
(* Tiered triage decision engine, rule-based scoring model and             *)
(* conversation memory of the TRIAGE A.I. backend.                         *)
(*                                                                         *)
(* Python strings are modelled as sequences of one-character strings, so   *)
(* that substring tests, lower-casing and the regular-expression           *)
(* normalisation are computed character by character as the code does.     *)
(***************************************************************************)
EXTENDS Integers, Sequences, FiniteSets, TLC

----------------------------------------------------------------------------
(* Characters and the string primitives the code uses.                     *)

UpperAlphabet ==
    << "A","B","C","D","E","F","G","H","I","J","K","L","M",
       "N","O","P","Q","R","S","T","U","V","W","X","Y","Z" >>

LowerAlphabet ==
    << "a","b","c","d","e","f","g","h","i","j","k","l","m",
       "n","o","p","q","r","s","t","u","v","w","x","y","z" >>

DigitChars ==
    {"0","1","2","3","4","5","6","7","8","9"}

Range(s) ==
    { s[i] : i \in DOMAIN s }

\* regular-expression class \s
IsSpaceChar(c) ==
    c \in {" ", "\t", "\n"}

\* regular-expression class \w
IsWordChar(c) ==
    c \in Range(UpperAlphabet) \cup Range(LowerAlphabet) \cup DigitChars \cup {"_"}

char_lower(c) ==
    IF c \in Range(UpperAlphabet)
    THEN LowerAlphabet[CHOOSE i \in DOMAIN UpperAlphabet : UpperAlphabet[i] = c]
    ELSE c

\* str.lower()
lower(s) ==
    [ i \in 1..Len(s) |-> char_lower(s[i]) ]

\* str.strip()
strip(s) ==
    LET solid == { i \in 1..Len(s) : ~IsSpaceChar(s[i]) }
    IN  IF solid = {} THEN << >>
        ELSE SubSeq(s, CHOOSE i \in solid : \A j \in solid : i <= j,
                       CHOOSE i \in solid : \A j \in solid : i >= j)

\* the Python test `keyword in text`
str_in(keyword, text) ==
    \E i \in 0..(Len(text) - Len(keyword)) :
        \A j \in 1..Len(keyword) : text[i + j] = keyword[j]

\* re.sub(r'[^\w\s]', ' ', text)
sub_special(s) ==
    [ i \in 1..Len(s) |-> IF IsWordChar(s[i]) \/ IsSpaceChar(s[i]) THEN s[i] ELSE " " ]

RECURSIVE collapse_from(_, _)
collapse_from(s, i) ==
    IF i > Len(s) THEN << >>
    ELSE IF ~IsSpaceChar(s[i]) THEN << s[i] >> \o collapse_from(s, i + 1)
    ELSE IF i > 1 /\ IsSpaceChar(s[i - 1]) THEN collapse_from(s, i + 1)
    ELSE << " " >> \o collapse_from(s, i + 1)

\* re.sub(r'\s+', ' ', text)
sub_whitespace(s) ==
    collapse_from(s, 1)

preprocess_symptoms(text) ==
    strip(sub_whitespace(sub_special(lower(text))))

----------------------------------------------------------------------------
(* Keyword tables.                                                         *)

\* EnhancedTriageService.triage_guidelines, in dictionary order
guideline_levels ==
    << "emergency", "urgent", "routine" >>

emergency_guideline_keywords ==
    << <<"c","h","e","s","t"," ","p","a","i","n">>,
       <<"d","i","f","f","i","c","u","l","t","y"," ","b","r","e","a","t","h","i","n","g">>,
       <<"s","e","v","e","r","e"," ","b","l","e","e","d","i","n","g">>,
       <<"s","t","r","o","k","e">>,
       <<"u","n","c","o","n","s","c","i","o","u","s">>,
       <<"s","e","v","e","r","e"," ","h","e","a","d"," ","i","n","j","u","r","y">>,
       <<"h","e","a","r","t"," ","a","t","t","a","c","k">>,
       <<"s","u","i","c","i","d","a","l">>,
       <<"c","h","o","k","i","n","g">>,
       <<"s","e","v","e","r","e"," ","b","u","r","n">>,
       <<"p","o","i","s","o","n","i","n","g">>,
       <<"s","e","v","e","r","e"," ","a","l","l","e","r","g","i","c"," ","r","e","a","c","t",
         "i","o","n">>,
       <<"a","n","a","p","h","y","l","a","x","i","s">>,
       <<"s","e","i","z","u","r","e">> >>

urgent_guideline_keywords ==
    << <<"f","e","v","e","r"," ","w","i","t","h"," ","r","a","s","h">>,
       <<"b","r","o","k","e","n"," ","b","o","n","e">>,
       <<"d","e","e","p"," ","c","u","t">>,
       <<"h","i","g","h"," ","f","e","v","e","r">>,
       <<"s","e","v","e","r","e"," ","p","a","i","n">>,
       <<"v","o","m","i","t","i","n","g"," ","b","l","o","o","d">>,
       <<"d","e","h","y","d","r","a","t","i","o","n">>,
       <<"a","b","d","o","m","i","n","a","l"," ","p","a","i","n">>,
       <<"a","s","t","h","m","a"," ","a","t","t","a","c","k">>,
       <<"u","r","i","n","a","r","y"," ","t","r","a","c","t"," ","i","n","f","e","c","t","i",
         "o","n">>,
       <<"m","i","g","r","a","i","n","e">> >>

routine_guideline_keywords ==
    << <<"c","o","l","d"," ","s","y","m","p","t","o","m","s">>,
       <<"m","i","l","d"," ","f","e","v","e","r">>,
       <<"r","a","s","h">>,
       <<"h","e","a","d","a","c","h","e">>,
       <<"b","a","c","k"," ","p","a","i","n">>,
       <<"s","p","r","a","i","n">>,
       <<"c","o","u","g","h">>,
       <<"s","o","r","e"," ","t","h","r","o","a","t">>,
       <<"a","l","l","e","r","g","i","e","s">>,
       <<"e","a","r"," ","p","a","i","n">> >>

breathing_patterns ==
    << <<"c","a","n","'","t"," ","b","r","e","a","t","h","e">>,
       <<"d","i","f","f","i","c","u","l","t","y"," ","b","r","e","a","t","h","i","n","g">>,
       <<"c","h","o","k","i","n","g">> >>

severe_pain_patterns ==
    << <<"s","h","a","r","p"," ","p","a","i","n">>,
       <<"s","e","v","e","r","e"," ","p","a","i","n">>,
       <<"u","n","b","e","a","r","a","b","l","e"," ","p","a","i","n">> >>

emergency_keywords ==
    << <<"c","h","e","s","t"," ","p","a","i","n">>,
       <<"h","e","a","r","t"," ","a","t","t","a","c","k">>,
       <<"s","t","r","o","k","e">>,
       <<"u","n","c","o","n","s","c","i","o","u","s">>,
       <<"b","l","e","e","d","i","n","g"," ","h","e","a","v","i","l","y">>,
       <<"d","i","f","f","i","c","u","l","t","y"," ","b","r","e","a","t","h","i","n","g">>,
       <<"s","e","v","e","r","e"," ","h","e","a","d"," ","i","n","j","u","r","y">>,
       <<"p","a","r","a","l","y","s","i","s">>,
       <<"s","e","i","z","u","r","e">> >>

urgent_keywords ==
    << <<"a","b","d","o","m","i","n","a","l"," ","p","a","i","n">>,
       <<"b","r","o","k","e","n"," ","b","o","n","e">>,
       <<"h","i","g","h"," ","f","e","v","e","r">>,
       <<"s","e","v","e","r","e"," ","p","a","i","n">>,
       <<"v","o","m","i","t","i","n","g"," ","b","l","o","o","d">>,
       <<"h","e","a","d"," ","i","n","j","u","r","y">>,
       <<"e","y","e"," ","i","n","j","u","r","y">>,
       <<"s","e","v","e","r","e"," ","b","u","r","n">> >>

routine_keywords ==
    << <<"m","i","l","d"," ","f","e","v","e","r">>,
       <<"c","o","u","g","h">>,
       <<"c","o","l","d"," ","s","y","m","p","t","o","m","s">>,
       <<"m","i","n","o","r"," ","i","n","j","u","r","y">>,
       <<"s","k","i","n"," ","r","a","s","h">>,
       <<"m","i","l","d"," ","h","e","a","d","a","c","h","e">>,
       <<"s","o","r","e"," ","t","h","r","o","a","t">> >>

guideline_keywords(level) ==
    CASE level = "emergency" -> emergency_guideline_keywords
      [] level = "urgent"    -> urgent_guideline_keywords
      [] level = "routine"   -> routine_guideline_keywords

----------------------------------------------------------------------------
(* Confidence values are exact fractions num/den with den > 0.             *)

Frac(n, d) ==
    [ num |-> n, den |-> d ]

FracEq(a, b) ==
    a.num * b.den = b.num * a.den

----------------------------------------------------------------------------
(* ScoringModel: the rule path of determine_triage_level.                  *)

count_matches(keywords, text_lower) ==
    Cardinality({ i \in DOMAIN keywords : str_in(keywords[i], text_lower) })

any_in(patterns, text_lower) ==
    \E i \in DOMAIN patterns : str_in(patterns[i], text_lower)

\* variant: a text that matches an emergency keyword is not scanned for the
\* keywords of the other levels
keyword_scores_exclusive(text_lower) ==
    LET found == count_matches(guideline_keywords("emergency"), text_lower)
    IN  [ emergency |-> 3 * found,
          urgent    |-> IF found > 0 THEN 0
                        ELSE 2 * count_matches(guideline_keywords("urgent"), text_lower),
          routine   |-> IF found > 0 THEN 0
                        ELSE count_matches(guideline_keywords("routine"), text_lower) ]

keyword_scores(text_lower) ==
    [ emergency |-> 3 * count_matches(guideline_keywords("emergency"), text_lower),
      urgent    |-> 2 * count_matches(guideline_keywords("urgent"), text_lower),
      routine   |-> 1 * count_matches(guideline_keywords("routine"), text_lower) ]

breathing_bonus(text_lower) ==
    IF any_in(breathing_patterns, text_lower) THEN 5 ELSE 0

severe_pain_bonus(text_lower) ==
    IF any_in(severe_pain_patterns, text_lower) THEN 3 ELSE 0

rule_scores(text_lower) ==
    LET base == keyword_scores(text_lower)
    IN  [ base EXCEPT !.emergency = @ + breathing_bonus(text_lower)
                                      + severe_pain_bonus(text_lower) ]

\* max(scores, key=scores.get): the first key, in dictionary order, whose
\* score is not exceeded by any other
\* a variant of the fold in which a later key with an equal score replaces
\* the earlier one
RECURSIVE max_from_last(_, _, _)
max_from_last(scores, i, best) ==
    IF i > Len(guideline_levels) THEN best
    ELSE max_from_last(scores, i + 1,
                       IF scores[guideline_levels[i]] >= scores[best]
                       THEN guideline_levels[i] ELSE best)

RECURSIVE max_from(_, _, _)
max_from(scores, i, best) ==
    IF i > Len(guideline_levels) THEN best
    ELSE max_from(scores, i + 1,
                  IF scores[guideline_levels[i]] > scores[best]
                  THEN guideline_levels[i] ELSE best)

max_level(scores) ==
    max_from(scores, 2, guideline_levels[1])

total_score(scores) ==
    scores.emergency + scores.urgent + scores.routine

\* variant: the confidence is the share of the emergency score
rule_confidence_of_emergency(scores, level) ==
    IF total_score(scores) > 0 THEN Frac(scores.emergency, total_score(scores))
    ELSE Frac(1, 2)

rule_confidence(scores, level) ==
    IF total_score(scores) > 0 THEN Frac(scores[level], total_score(scores))
    ELSE Frac(1, 2)

rule_path(text) ==
    LET scores == rule_scores(lower(text))
        level  == max_level(scores)
    IN  [ level |-> level, confidence |-> rule_confidence(scores, level) ]

----------------------------------------------------------------------------
(* Input texts: one to n phrases of a vocabulary, joined by single spaces. *)

MaxPhrases ==
    2

RECURSIVE phrase_texts(_, _)
phrase_texts(vocab, n) ==
    IF n = 1 THEN Range(vocab)
    ELSE LET shorter == phrase_texts(vocab, n - 1)
         IN  shorter \cup { t \o << " " >> \o p : t \in shorter, p \in Range(vocab) }

Vocab ==
    << <<>>,
       <<" ">>,
       <<"!","!">>,
       <<"H","e","l","l","o","!">>,
       <<"C","h","e","s","t"," ","P","a","i","n">>,
       <<"s","t","r","o","k","e">>,
       <<"c","h","o","k","i","n","g">>,
       <<"c","a","n","'","t"," ","b","r","e","a","t","h","e">>,
       <<"s","e","v","e","r","e"," ","p","a","i","n">>,
       <<"s","h","a","r","p"," ","p","a","i","n">>,
       <<"s","e","v","e","r","e"," ","b","u","r","n">>,
       <<"m","i","g","r","a","i","n","e"," ","d","e","h","y","d","r","a","t","i","o","n"," ",
         "d","e","e","p"," ","c","u","t"," ","b","r","o","k","e","n"," ","b","o","n","e">>,
       <<"m","i","l","d"," ","f","e","v","e","r"," ","w","i","t","h"," ","r","a","s","h">>,
       <<"c","o","u","g","h">>,
       <<"r","a","s","h"," ","h","e","a","d","a","c","h","e"," ","s","o","r","e"," ","t","h",
         "r","o","a","t">> >>

ScoringTexts ==
    phrase_texts(Vocab, MaxPhrases)

MaxEnginePhrases ==
    1

EngineVocab ==
    << <<>>,
       <<" ">>,
       <<"!","!">>,
       <<"H","e","l","l","o","!">>,
       <<"C","h","e","s","t"," ","P","a","i","n">>,
       <<"s","e","v","e","r","e"," ","b","u","r","n">>,
       <<"h","i","g","h"," ","f","e","v","e","r">>,
       <<"a"," ","c","o","u","g","h">> >>

EngineTexts ==
    phrase_texts(EngineVocab, MaxEnginePhrases)

----------------------------------------------------------------------------
(* EnhancedTriageService and ai_integration: fixed texts.                  *)

prior_text ==
    <<"h","i","g","h"," ","f","e","v","e","r">>

fallback_emergency_keywords ==
    << <<"c","h","e","s","t"," ","p","a","i","n">>,
       <<"h","e","a","r","t"," ","a","t","t","a","c","k">>,
       <<"s","t","r","o","k","e">>,
       <<"u","n","c","o","n","s","c","i","o","u","s">> >>

fallback_urgent_keywords ==
    << <<"a","b","d","o","m","i","n","a","l"," ","p","a","i","n">>,
       <<"b","r","o","k","e","n"," ","b","o","n","e">>,
       <<"h","i","g","h"," ","f","e","v","e","r">> >>

----------------------------------------------------------------------------
(* Fixed texts are kept in the state by name: a text is a sequence whose   *)
(* elements are characters or names of the blocks below, and expand gives  *)
(* the characters of the Python string it stands for.                      *)

BlockNames ==
    { "image_dark_message",
      "image_low_contrast_message",
      "image_suitable_message",
      "image_unable_message",
      "image_analysis_prefix",
      "emergency_response_template",
      "urgent_response_template",
      "routine_response_template",
      "default_response_template",
      "chest_pain_guidance",
      "abdominal_pain_guidance",
      "headache_guidance",
      "breathing_guidance",
      "pain_questions",
      "fever_questions",
      "nausea_questions",
      "generic_questions" }

text_block(name) ==
    CASE name = "image_dark_message" ->
            <<"I","m","a","g","e"," ","a","p","p","e","a","r","s"," ","d","a","r","k","."," ","P","l",
            "e","a","s","e"," ","e","n","s","u","r","e"," ","p","r","o","p","e","r"," ","l","i","g","h",
            "t","i","n","g"," ","f","o","r"," ","a","c","c","u","r","a","t","e"," ","a","s","s","e","s",
            "s","m","e","n","t",".">>
      [] name = "image_low_contrast_message" ->
            <<"I","m","a","g","e"," ","h","a","s"," ","l","o","w"," ","c","o","n","t","r","a","s","t",
            "."," ","P","l","e","a","s","e"," ","t","a","k","e"," ","p","h","o","t","o"," ","i","n"," ",
            "b","e","t","t","e","r"," ","l","i","g","h","t","i","n","g"," ","c","o","n","d","i","t","i",
            "o","n","s",".">>
      [] name = "image_suitable_message" ->
            <<"I","m","a","g","e"," ","q","u","a","l","i","t","y"," ","a","p","p","e","a","r","s"," ",
            "s","u","i","t","a","b","l","e"," ","f","o","r"," ","a","n","a","l","y","s","i","s","."," ",
            "V","i","s","i","b","l","e"," ","a","r","e","a"," ","s","h","o","w","s"," ","c","l","e","a",
            "r"," ","f","o","c","u","s"," ","o","n"," ","s","y","m","p","t","o","m","s",".">>
      [] name = "image_unable_message" ->
            <<"U","n","a","b","l","e"," ","t","o"," ","a","n","a","l","y","z","e"," ","i","m","a","g",
            "e","."," ","P","l","e","a","s","e"," ","p","r","o","v","i","d","e"," ","a"," ","c","l","e",
            "a","r"," ","p","h","o","t","o"," ","o","f"," ","t","h","e"," ","a","f","f","e","c","t","e",
            "d"," ","a","r","e","a",".">>
      [] name = "image_analysis_prefix" ->
            <<"\n","\n","I","m","a","g","e"," ","A","n","a","l","y","s","i","s",":"," ">>
      [] name = "emergency_response_template" ->
            <<"B","a","s","e","d"," ","o","n"," ","y","o","u","r"," ","s","y","m","p","t","o","m","s",
            ","," ","t","h","i","s"," ","a","p","p","e","a","r","s"," ","t","o"," ","b","e"," ","a"," ",
            "m","e","d","i","c","a","l"," ","e","m","e","r","g","e","n","c","y","."," ","P","l","e","a",
            "s","e"," ","s","e","e","k"," ","i","m","m","e","d","i","a","t","e"," ","c","a","r","e"," ",
            "a","t"," ","t","h","e"," ","n","e","a","r","e","s","t"," ","e","m","e","r","g","e","n","c",
            "y"," ","r","o","o","m"," ","o","r"," ","c","a","l","l"," ","9","1","1",".">>
      [] name = "urgent_response_template" ->
            <<"Y","o","u","r"," ","s","y","m","p","t","o","m","s"," ","s","u","g","g","e","s","t"," ",
            "y","o","u"," ","s","h","o","u","l","d"," ","v","i","s","i","t"," ","a","n"," ","u","r","g",
            "e","n","t"," ","c","a","r","e"," ","c","e","n","t","e","r"," ","w","i","t","h","i","n"," ",
            "t","h","e"," ","n","e","x","t"," ","2","4"," ","h","o","u","r","s",".">>
      [] name = "routine_response_template" ->
            <<"B","a","s","e","d"," ","o","n"," ","y","o","u","r"," ","s","y","m","p","t","o","m","s",
            ","," ","y","o","u"," ","s","h","o","u","l","d"," ","s","c","h","e","d","u","l","e"," ","a",
            "n"," ","a","p","p","o","i","n","t","m","e","n","t"," ","w","i","t","h"," ","y","o","u","r",
            " ","p","r","i","m","a","r","y"," ","c","a","r","e"," ","p","r","o","v","i","d","e","r",
            ".">>
      [] name = "default_response_template" ->
            <<"B","a","s","e","d"," ","o","n"," ","y","o","u","r"," ","s","y","m","p","t","o","m","s",
            ","," ","I"," ","r","e","c","o","m","m","e","n","d"," ","c","o","n","s","u","l","t","i","n",
            "g"," ","w","i","t","h"," ","a"," ","h","e","a","l","t","h","c","a","r","e"," ","p","r","o",
            "f","e","s","s","i","o","n","a","l",".">>
      [] name = "chest_pain_guidance" ->
            <<"C","h","e","s","t"," ","p","a","i","n"," ","c","a","n"," ","b","e"," ","s","e","r","i",
            "o","u","s",","," ","e","s","p","e","c","i","a","l","l","y"," ","i","f"," ","i","t"," ","r",
            "a","d","i","a","t","e","s"," ","t","o"," ","y","o","u","r"," ","a","r","m",","," ","n","e",
            "c","k",","," ","o","r"," ","j","a","w",","," ","o","r"," ","i","s"," ","a","c","c","o","m",
            "p","a","n","i","e","d"," ","b","y"," ","s","h","o","r","t","n","e","s","s"," ","o","f"," ",
            "b","r","e","a","t","h",","," ","n","a","u","s","e","a",","," ","o","r"," ","s","w","e","a",
            "t","i","n","g",".">>
      [] name = "abdominal_pain_guidance" ->
            <<"A","b","d","o","m","i","n","a","l"," ","p","a","i","n"," ","c","a","n"," ","i","n","d",
            "i","c","a","t","e"," ","v","a","r","i","o","u","s"," ","c","o","n","d","i","t","i","o","n",
            "s","."," ","S","e","v","e","r","e",","," ","s","u","d","d","e","n"," ","p","a","i","n"," ",
            "o","r"," ","p","a","i","n"," ","w","i","t","h"," ","f","e","v","e","r"," ","r","e","q","u",
            "i","r","e","s"," ","i","m","m","e","d","i","a","t","e"," ","a","t","t","e","n","t","i","o",
            "n",".">>
      [] name = "headache_guidance" ->
            <<"M","o","s","t"," ","h","e","a","d","a","c","h","e","s"," ","a","r","e"," ","n","o","t",
            " ","s","e","r","i","o","u","s",","," ","b","u","t"," ","s","u","d","d","e","n"," ","s","e",
            "v","e","r","e"," ","h","e","a","d","a","c","h","e","s"," ","o","r"," ","h","e","a","d","a",
            "c","h","e","s"," ","w","i","t","h"," ","c","o","n","f","u","s","i","o","n"," ","r","e","q",
            "u","i","r","e"," ","i","m","m","e","d","i","a","t","e"," ","m","e","d","i","c","a","l"," ",
            "a","t","t","e","n","t","i","o","n",".">>
      [] name = "breathing_guidance" ->
            <<"D","i","f","f","i","c","u","l","t","y"," ","b","r","e","a","t","h","i","n","g"," ","i",
            "s"," ","a"," ","m","e","d","i","c","a","l"," ","e","m","e","r","g","e","n","c","y","."," ",
            "P","l","e","a","s","e"," ","s","e","e","k"," ","i","m","m","e","d","i","a","t","e"," ","c",
            "a","r","e",".">>
      [] name = "pain_questions" ->
            <<"C","a","n"," ","y","o","u"," ","r","a","t","e"," ","y","o","u","r"," ","p","a","i","n",
            " ","o","n"," ","a"," ","s","c","a","l","e"," ","o","f"," ","1","-","1","0","?"," ","W","h",
            "e","n"," ","d","i","d"," ","t","h","e"," ","p","a","i","n"," ","s","t","a","r","t","?"," ",
            "I","s"," ","i","t"," ","c","o","n","s","t","a","n","t"," ","o","r"," ","i","n","t","e","r",
            "m","i","t","t","e","n","t","?">>
      [] name = "fever_questions" ->
            <<"W","h","a","t"," ","i","s"," ","y","o","u","r"," ","t","e","m","p","e","r","a","t","u",
            "r","e","?"," ","H","o","w"," ","l","o","n","g"," ","h","a","v","e"," ","y","o","u"," ","h",
            "a","d"," ","t","h","e"," ","f","e","v","e","r","?"," ","A","r","e"," ","y","o","u"," ","e",
            "x","p","e","r","i","e","n","c","i","n","g"," ","a","n","y"," ","o","t","h","e","r"," ","s",
            "y","m","p","t","o","m","s","?">>
      [] name = "nausea_questions" ->
            <<"A","r","e"," ","y","o","u"," ","v","o","m","i","t","i","n","g","?"," ","W","h","e","n",
            " ","d","i","d"," ","t","h","e"," ","n","a","u","s","e","a"," ","s","t","a","r","t","?"," ",
            "A","r","e"," ","y","o","u"," ","a","b","l","e"," ","t","o"," ","k","e","e","p"," ","f","l",
            "u","i","d","s"," ","d","o","w","n","?">>
      [] name = "generic_questions" ->
            <<"C","a","n"," ","y","o","u"," ","t","e","l","l"," ","m","e"," ","m","o","r","e"," ","a",
            "b","o","u","t"," ","y","o","u","r"," ","s","y","m","p","t","o","m","s","?"," ","H","o","w",
            " ","l","o","n","g"," ","h","a","v","e"," ","y","o","u"," ","b","e","e","n"," ","e","x","p",
            "e","r","i","e","n","c","i","n","g"," ","t","h","e","m","?">>

RECURSIVE expand(_)
expand(text) ==
    IF text = << >> THEN << >>
    ELSE (IF Head(text) \in BlockNames THEN text_block(Head(text)) ELSE << Head(text) >>)
         \o expand(Tail(text))

\* _analyze_image / _mock_image_analysis: the text returned for an image
image_analysis_of(image_data) ==
    CASE image_data = "none"         -> << >>
      [] image_data = "dark"         -> << "image_dark_message" >>
      [] image_data = "low_contrast" -> << "image_low_contrast_message" >>
      [] image_data = "clear"        -> << "image_suitable_message" >>
      [] image_data = "corrupt"      -> << "image_unable_message" >>

\* analyze_symptoms: the text handed to the tier chain
combined_input_of(text, analysis) ==
    IF analysis # << >> THEN text \o << "image_analysis_prefix" >> \o analysis ELSE text

----------------------------------------------------------------------------
(* TriageAIService: assessments and results.                               *)

TriageLevels ==
    {"emergency", "urgent", "routine", "self_care"}

RequiredFields ==
    {"level", "confidence", "summary", "recommendations", "next_steps"}

AllFields ==
    RequiredFields \cup {"risk_factors"}

\* a confidence that is not a number (a JSON string or null)
NotANumber ==
    [ num |-> 0, den |-> 0 ]

IsNumber(c) ==
    c.den > 0

InUnitInterval(c) ==
    IsNumber(c) /\ 0 <= c.num /\ c.num <= c.den

NoAssessment ==
    [ kind |-> "none", keys |-> {}, level |-> "none", confidence |-> NotANumber,
      summary |-> "none" ]

assessment(level, confidence, summary) ==
    [ kind |-> "object", keys |-> AllFields, level |-> level,
      confidence |-> confidence, summary |-> summary ]

\* the first keyword list, in the order emergency, urgent, routine, with a
\* keyword occurring in the lower-cased text decides; otherwise the default
rule_based_assessment(symptoms_text) ==
    LET symptoms_lower == lower(expand(symptoms_text))
    IN  IF any_in(emergency_keywords, symptoms_lower)
        THEN assessment("emergency", Frac(9, 10), "emergency condition")
        ELSE IF any_in(urgent_keywords, symptoms_lower)
        THEN assessment("urgent", Frac(8, 10), "urgent evaluation")
        ELSE IF any_in(routine_keywords, symptoms_lower)
        THEN assessment("routine", Frac(7, 10), "routine care")
        ELSE assessment("routine", Frac(6, 10), "professional evaluation")

\* what the external assessor can produce for one call
OpenAIOutcomes ==
    { [ kind |-> k, keys |-> {}, level |-> "none", confidence |-> NotANumber,
        summary |-> "none" ] : k \in {"error", "unparsable", "nonobject"} }
    \cup { [ kind |-> "object", keys |-> AllFields \ {f}, level |-> "urgent",
             confidence |-> Frac(8, 10), summary |-> "generated" ] : f \in RequiredFields }
    \cup { [ kind |-> "object", keys |-> ks, level |-> l, confidence |-> c,
             summary |-> "generated" ] :
             ks \in {AllFields, RequiredFields},
             l \in {"emergency", "self_care", "critical"},
             c \in {Frac(19, 20), Frac(3, 2), NotANumber} }

\* _get_openai_assessment raises on a transport error and when json.loads
\* rejects the content
openai_raises(outcome) ==
    outcome.kind \in {"error", "unparsable"}

\* _get_triage_assessment: the tier entered first
first_tier(client, model) ==
    IF client THEN "ExternalAI"
    ELSE IF model THEN "LocalClassifier"
    ELSE "RuleBased"

\* a variant in which the exception handler calls the external assessor again
tier_after_failure_retry(client, model) ==
    IF client THEN "ExternalAI" ELSE "RuleBased"

\* _get_triage_assessment: the tier entered by the exception handler
tier_after_failure(client, model) ==
    "RuleBased"

\* the pc at which a tier runs
tier_pc(tier) ==
    CASE tier = "ExternalAI"      -> "openai"
      [] tier = "LocalClassifier" -> "local"
      [] tier = "RuleBased"       -> "rule"

NoTriageResult ==
    [ level |-> "none", confidence |-> NotANumber, summary |-> "none",
      image_analysis |-> << >>, processing_time |-> 0 ]

\* a variant of the default with no confidence in it
zero_confidence_default ==
    [ level |-> "routine", confidence |-> Frac(0, 1),
      summary |-> "consult a healthcare provider",
      image_analysis |-> << >>, processing_time |-> 0 ]

\* the except branch of analyze_symptoms
safe_default_result ==
    [ level |-> "routine", confidence |-> Frac(1, 2),
      summary |-> "consult a healthcare provider",
      image_analysis |-> << >>, processing_time |-> 0 ]

\* TriageResult(...) construction raises when the assessment is not a
\* dictionary or lacks a field read with [...]
construction_raises(a) ==
    a.kind # "object" \/ ~(RequiredFields \subseteq a.keys)

build_result(a, analysis, elapsed) ==
    IF construction_raises(a) THEN safe_default_result
    ELSE [ level |-> a.level, confidence |-> a.confidence, summary |-> a.summary,
           image_analysis |-> analysis, processing_time |-> elapsed ]

\* process_triage_request: the validation `not request.text_input.strip()`
validation_rejects(text) ==
    strip(text) = << >>

MaxElapsed ==
    1

----------------------------------------------------------------------------
(* EnhancedTriageService: rule-based response texts.                       *)

\* triage_guidelines.get(level, {}).get("response_template", default)
response_template(level) ==
    CASE level = "emergency" -> << "emergency_response_template" >>
      [] level = "urgent"    -> << "urgent_response_template" >>
      [] level = "routine"   -> << "routine_response_template" >>
      [] OTHER               -> << "default_response_template" >>

specific_guidance(symptoms) ==
    LET symptoms_lower == lower(symptoms)
    IN  IF str_in(<<"c","h","e","s","t"," ","p","a","i","n">>, symptoms_lower) THEN << "chest_pain_guidance" >>
        ELSE IF str_in(<<"a","b","d","o","m","i","n","a","l"," ","p","a","i","n">>, symptoms_lower) THEN << "abdominal_pain_guidance" >>
        ELSE IF str_in(<<"h","e","a","d","a","c","h","e">>, symptoms_lower) THEN << "headache_guidance" >>
        ELSE IF str_in(<<"d","i","f","f","i","c","u","l","t","y"," ","b","r","e","a","t","h","i","n","g">>, symptoms_lower) THEN << "breathing_guidance" >>
        ELSE << >>

follow_up_questions(symptoms) ==
    LET symptoms_lower == lower(symptoms)
    IN  IF str_in(<<"p","a","i","n">>, symptoms_lower) THEN << "pain_questions" >>
        ELSE IF str_in(<<"f","e","v","e","r">>, symptoms_lower) THEN << "fever_questions" >>
        ELSE IF str_in(<<"n","a","u","s","e","a">>, symptoms_lower) THEN << "nausea_questions" >>
        ELSE << "generic_questions" >>

\* what a loaded classifier can return for one call; "raises" is the branch
\* that logs the error and falls back to the rule path
ClassifierOutcomes ==
    { [ level |-> "urgent", confidence |-> Frac(2, 5), path |-> "classifier" ],
      [ level |-> "none", confidence |-> NotANumber, path |-> "raises" ] }

rule_outcome(text) ==
    [ level |-> rule_path(text).level, confidence |-> rule_path(text).confidence,
      path |-> "rule" ]

SessionVocab ==
    << <<>>,
       <<"c","a","n","'","t"," ","b","r","e","a","t","h","e","!">>,
       <<"A"," ","c","o","u","g","h",".">> >>

SessionTexts ==
    Range(SessionVocab)

\* preprocess_symptoms of the input texts, computed once
preprocess_table ==
    [ t \in SessionTexts \cup {prior_text} |-> preprocess_symptoms(t) ]

preprocessed(text) ==
    IF text \in DOMAIN preprocess_table THEN preprocess_table[text]
    ELSE preprocess_symptoms(text)

\* the texts assess_symptoms hands on
KnownSymptoms ==
    Range(preprocess_table)

\* rule_outcome and the response parts of the known texts, computed once
rule_outcome_table ==
    [ t \in KnownSymptoms |-> rule_outcome(t) ]

response_parts_table ==
    [ t \in KnownSymptoms |-> << specific_guidance(t), follow_up_questions(t) >> ]

response_parts(symptoms) ==
    IF symptoms \in KnownSymptoms THEN response_parts_table[symptoms]
    ELSE << specific_guidance(symptoms), follow_up_questions(symptoms) >>

\* _get_rule_based_response, given the level determine_triage_level returned:
\* f"{response_template} {specific_guidance} {follow_up_questions}"
rule_based_response(symptoms, level) ==
    response_template(level) \o << " " >> \o response_parts(symptoms)[1]
        \o << " " >> \o response_parts(symptoms)[2]

rule_outcome_of(text) ==
    IF text \in KnownSymptoms THEN rule_outcome_table[text] ELSE rule_outcome(text)

\* determine_triage_level: every value one call can return
determine_triage_level(has_classifier, text) ==
    IF has_classifier
    THEN { IF o.path = "raises" THEN rule_outcome_of(text) ELSE o : o \in ClassifierOutcomes }
    ELSE { rule_outcome_of(text) }

\* ai_integration.get_fallback_assessment
get_fallback_assessment(symptoms) ==
    LET symptoms_lower == lower(symptoms)
    IN  IF any_in(fallback_emergency_keywords, symptoms_lower)
        THEN [ level |-> "emergency", confidence |-> Frac(9, 10), path |-> "fallback" ]
        ELSE IF any_in(fallback_urgent_keywords, symptoms_lower)
        THEN [ level |-> "urgent", confidence |-> Frac(8, 10), path |-> "fallback" ]
        ELSE [ level |-> "routine", confidence |-> Frac(7, 10), path |-> "fallback" ]

----------------------------------------------------------------------------
(* EnhancedTriageService._postprocess_response: the two re.sub calls and    *)
(* the disclaimer test, computed on the characters.                         *)

diagnostic_patterns ==
    << <<"I"," ","d","i","a","g","n","o","s","e">>,
       <<"y","o","u"," ","h","a","v","e">>,
       <<"y","o","u","'","v","e"," ","g","o","t">>,
       <<"i","t","'","s"," ","d","e","f","i","n","i","t","e","l","y">> >>

reassurance_phrases ==
    << <<"d","o","n","'","t"," ","w","o","r","r","y">>,
       <<"i","t","'","s"," ","n","o","t","h","i","n","g">>,
       <<"y","o","u","'","l","l"," ","b","e"," ","f","i","n","e">> >>

diagnostic_replacement ==
    <<"I"," ","r","e","c","o","m","m","e","n","d"," ","c","o","n","s","u","l","t","i","n","g",
    " ","w","i","t","h"," ","a"," ","h","e","a","l","t","h","c","a","r","e"," ","p","r","o","f",
    "e","s","s","i","o","n","a","l"," ","f","o","r"," ","a","n"," ","a","c","c","u","r","a","t",
    "e"," ","a","s","s","e","s","s","m","e","n","t",".">>

reassurance_replacement ==
    <<"I"," ","r","e","c","o","m","m","e","n","d"," ","m","o","n","i","t","o","r","i","n","g",
    " ","y","o","u","r"," ","s","y","m","p","t","o","m","s"," ","a","n","d"," ","s","e","e","k",
    "i","n","g"," ","m","e","d","i","c","a","l"," ","a","t","t","e","n","t","i","o","n"," ","i",
    "f"," ","t","h","e","y"," ","w","o","r","s","e","n">>

\* the text looked for before the disclaimer is appended
disclaimer_marker ==
    <<"c","o","n","s","u","l","t"," ","a"," ","h","e","a","l","t","h","c","a","r","e"," ","p",
    "r","o","f","e","s","s","i","o","n","a","l">>

disclaimer_sentence ==
    <<" ","P","l","e","a","s","e"," ","c","o","n","s","u","l","t"," ","w","i","t","h"," ","a",
    " ","h","e","a","l","t","h","c","a","r","e"," ","p","r","o","f","e","s","s","i","o","n","a",
    "l"," ","f","o","r"," ","p","r","o","p","e","r"," ","m","e","d","i","c","a","l"," ","a","d",
    "v","i","c","e",".">>

\* \b(phrase)\b with re.IGNORECASE matches at position i; every phrase begins
\* and ends with a word character, so \b asks for no word character next to it
phrase_at(phrase, text, i) ==
    /\ i + Len(phrase) - 1 <= Len(text)
    /\ \A j \in 1..Len(phrase) : char_lower(text[i + j - 1]) = char_lower(phrase[j])
    /\ i = 1 \/ ~IsWordChar(text[i - 1])
    /\ i + Len(phrase) > Len(text) \/ ~IsWordChar(text[i + Len(phrase)])

\* where `.*?\.` ends when started at position i: the first full stop with no
\* newline before it; 0 when there is none
sentence_end(text, i) ==
    LET stops == { k \in i..Len(text) :
                     /\ text[k] = "."
                     /\ \A j \in i..(k - 1) : text[j] \notin {".", "\n"} }
    IN  IF stops = {} THEN 0 ELSE CHOOSE k \in stops : TRUE

\* re.sub(r'\b(I diagnose|...)\b.*?\.', replacement, response), from position i
RECURSIVE sub_diagnostic(_, _)
sub_diagnostic(text, i) ==
    LET stop(j) ==
            LET hits == { k \in DOMAIN diagnostic_patterns :
                            phrase_at(diagnostic_patterns[k], text, j) }
            IN  IF hits = {} THEN 0
                ELSE sentence_end(text,
                        j + Len(diagnostic_patterns[CHOOSE k \in hits : TRUE]))
        starts == { j \in i..Len(text) : stop(j) > 0 }
    IN  IF starts = {} THEN SubSeq(text, i, Len(text))
        ELSE LET first == CHOOSE j \in starts : \A m \in starts : j <= m
             IN  SubSeq(text, i, first - 1) \o diagnostic_replacement
                 \o sub_diagnostic(text, stop(first) + 1)

\* re.sub(r'\b(don't worry|...)\b', replacement, response), from position i
RECURSIVE sub_reassurance(_, _)
sub_reassurance(text, i) ==
    LET hits(j) == { k \in DOMAIN reassurance_phrases :
                        phrase_at(reassurance_phrases[k], text, j) }
        starts == { j \in i..Len(text) : hits(j) # {} }
    IN  IF starts = {} THEN SubSeq(text, i, Len(text))
        ELSE LET first == CHOOSE j \in starts : \A m \in starts : j <= m
             IN  SubSeq(text, i, first - 1) \o reassurance_replacement
                 \o sub_reassurance(text,
                        first + Len(reassurance_phrases[CHOOSE k \in hits(first) : TRUE]))

\* the response after both substitutions
replaced_response(response) ==
    sub_reassurance(sub_diagnostic(response, 1), 1)

postprocess_response(response) ==
    LET replaced == replaced_response(response)
    IN  IF ~str_in(disclaimer_marker, lower(replaced))
        THEN replaced \o disclaimer_sentence
        ELSE replaced

MaxSanitizerPhrases ==
    2

SanitizerVocab ==
    << <<>>,
       <<"I"," ","d","i","a","g","n","o","s","e"," ","y","o","u"," ","w","i","t","h"," ","a",
         "p","p","e","n","d","i","c","i","t","i","s",".">>,
       <<"D","o","n","'","t"," ","w","o","r","r","y",","," ","i","t","'","s"," ","n","o","t",
         "h","i","n","g",".">>,
       <<"Y","o","u"," ","h","a","v","e"," ","t","h","e"," ","f","l","u">>,
       <<"R","e","s","t"," ","a","n","d"," ","d","r","i","n","k"," ","f","l","u","i","d","s",
         ".">>,
       <<"P","l","e","a","s","e"," ","c","o","n","s","u","l","t"," ","a"," ","h","e","a","l",
         "t","h","c","a","r","e"," ","p","r","o","f","e","s","s","i","o","n","a","l",".">>,
       <<"Y","o","u","'","l","l"," ","b","e"," ","f","i","n","e","!">>,
       <<"I","t","'","s"," ","d","e","f","i","n","i","t","e","l","y"," ","a"," ","c","o","l",
         "d","\n","S","t","a","y"," ","h","o","m","e",".">>,
       <<"C","o","n","s","u","l","t"," ","w","i","t","h"," ","y","o","u","r"," ","h","e","a",
         "l","t","h","c","a","r","e"," ","p","r","o","f","e","s","s","i","o","n","a","l",".">>,
       <<"T","h","a","n","k"," ","y","o","u",","," ","h","a","v","e"," ","a"," ","s","e","a",
         "t",".">> >>

SanitizerTexts ==
    phrase_texts(SanitizerVocab, MaxSanitizerPhrases)

----------------------------------------------------------------------------
(* TriageAIService.find_healthcare_resources.  A row of the table           *)
(* healthcare_resources is [type, latitude, miles]: miles is the geodesic   *)
(* distance from the requested location in hundredths of a mile, latitude   *)
(* is "null" for a row whose coordinates make geodesic raise.  A returned   *)
(* HealthcareResource is [id, type, distance] with the distance in tenths   *)
(* of a mile, as round(distance, 1) reports it.  max_distance is in         *)
(* hundredths of a mile.                                                    *)

ResultLimit ==
    10

\* round(distance, 1) of a distance that is not halfway between two tenths
round_tenths(miles) ==
    (miles + 5) \div 10

\* the loop over cursor.fetchall(): a row that raises is skipped, a row
\* within max_distance becomes a resource with the rounded distance
RECURSIVE fetched_resources(_, _, _)
fetched_resources(rows, i, max_distance) ==
    IF i > Len(rows) THEN << >>
    ELSE LET row == rows[i]
             rest == fetched_resources(rows, i + 1, max_distance)
         IN  IF row.latitude = "null" THEN rest
             ELSE IF row.miles <= max_distance
                  THEN << [id |-> ToString(i), type |-> row.type,
                           distance |-> round_tenths(row.miles)] >> \o rest
                  ELSE rest

\* resources.sort(key=lambda x: x.distance): a stable sort
RECURSIVE sort_by_distance(_)
sort_by_distance(resources) ==
    IF resources = << >> THEN << >>
    ELSE LET first == Head(resources)
             rest == sort_by_distance(Tail(resources))
         IN  SelectSeq(rest, LAMBDA r : r.distance < first.distance)
             \o << first >>
             \o SelectSeq(rest, LAMBDA r : r.distance >= first.distance)

filter_resources_by_triage_level(resources, triage_level) ==
    IF triage_level = "emergency"
    THEN SelectSeq(resources, LAMBDA r : r.type = "hospital")
    ELSE IF triage_level = "urgent"
         THEN SelectSeq(resources, LAMBDA r : r.type \in {"urgent_care", "hospital"})
         ELSE resources

get_mock_resources ==
    << [id |-> "mock_1", type |-> "hospital", distance |-> 21],
       [id |-> "mock_2", type |-> "urgent_care", distance |-> 13] >>

\* variant: a failing query is answered with an empty list
find_healthcare_resources_empty_on_error(db_connection, rows, triage_level, max_distance) ==
    IF db_connection = "none" THEN get_mock_resources ELSE << >>

\* variant: the sorted list is cut to ten entries before it is filtered
find_healthcare_resources_cut_first(db_connection, rows, triage_level, max_distance) ==
    IF db_connection # "connected" THEN get_mock_resources
    ELSE LET sorted == sort_by_distance(fetched_resources(rows, 1, max_distance))
         IN  filter_resources_by_triage_level(
                 SubSeq(sorted, 1, IF Len(sorted) < 10 THEN Len(sorted) ELSE 10),
                 triage_level)

\* db_connection is "none" when _initialize_database failed, "broken" when
\* cursor() or execute raises, "connected" otherwise
find_healthcare_resources(db_connection, rows, triage_level, max_distance) ==
    IF db_connection = "none" THEN get_mock_resources
    ELSE IF db_connection = "broken" THEN get_mock_resources
    ELSE LET filtered_resources ==
                 filter_resources_by_triage_level(
                     sort_by_distance(fetched_resources(rows, 1, max_distance)),
                     triage_level)
         IN  SubSeq(filtered_resources, 1,
                    IF Len(filtered_resources) < ResultLimit
                    THEN Len(filtered_resources) ELSE ResultLimit)

MaxRows ==
    3

RECURSIVE repeated(_, _)
repeated(rows, copies) ==
    IF copies = 0 THEN << >> ELSE rows \o repeated(rows, copies - 1)

\* tables of up to MaxRows rows, and the same tables written six times over
\* (more rows of one type than ResultLimit beside rows of another type)
Stores ==
    LET StoreRows ==
            {[type |-> "hospital", latitude |-> "set", miles |-> 256],
             [type |-> "hospital", latitude |-> "set", miles |-> 40],
             [type |-> "urgent_care", latitude |-> "set", miles |-> 120],
             [type |-> "clinic", latitude |-> "set", miles |-> 40],
             [type |-> "pharmacy", latitude |-> "set", miles |-> 256],
             [type |-> "clinic", latitude |-> "null", miles |-> 0]}
    IN  { repeated(rows, copies) :
            rows \in UNION { [1..n -> StoreRows] : n \in 0..MaxRows },
            copies \in {1, 6} }

----------------------------------------------------------------------------
(* EnhancedTriageService: conversation memory.  Lists are objects of a     *)
(* heap, because conversation_context.get returns the stored list itself   *)
(* and list.append changes it in place.                                    *)

Procs ==
    {1, 2}

Sessions ==
    {"s1", "s2"}

\* session ids a caller can pass; "none" is session_id=None, "unhashable" a
\* value (a list, a dictionary) that dict.get rejects with TypeError
SessionArgs ==
    Sessions \cup {"none", "unhashable"}

ObjIds ==
    1..(Cardinality(Sessions) + Cardinality(Procs))

turn(role, content) ==
    [ role |-> role, content |-> content ]

\* conversation_history[-10:]
\* variant: the ten oldest turns are kept
first_ten(history) ==
    IF Len(history) <= 10 THEN history ELSE SubSeq(history, 1, 10)

last_ten(history) ==
    IF Len(history) <= 10 THEN history
    ELSE SubSeq(history, Len(history) - 9, Len(history))

referenced(ctx, refs) ==
    ({ ctx[s] : s \in Sessions } \cup { refs[p] : p \in Procs }) \ {0}

\* the object a new list gets, once the references are ctx and refs
fresh_object(ctx, refs) ==
    CHOOSE i \in ObjIds \ referenced(ctx, refs) :
        \A j \in ObjIds \ referenced(ctx, refs) : i <= j

\* lists no longer referenced are reclaimed
collect(h, ctx, refs) ==
    [ i \in ObjIds |-> IF i \in referenced(ctx, refs) THEN h[i] ELSE << >> ]

\* a variant of the test that finds every session id
clear_finds_always(ctx, s) ==
    TRUE

\* clear_conversation_context: `session_id in self.conversation_context`
clear_finds(ctx, s) ==
    ctx[s] # 0

\* clear_conversation_context on the memory (ctx, h), with the lists refs of
\* the requests in progress: del raises KeyError for a key that is absent
clear_conversation_context(ctx, h, refs, s) ==
    IF ~clear_finds(ctx, s)
    THEN [ context |-> ctx, heap |-> h, raised |-> FALSE ]
    ELSE IF ctx[s] = 0
    THEN [ context |-> ctx, heap |-> h, raised |-> TRUE ]
    ELSE LET removed == [ ctx EXCEPT ![s] = 0 ]
         IN  [ context |-> removed, heap |-> collect(h, removed, refs), raised |-> FALSE ]

\* _build_medical_prompt: the lines that follow "Current conversation:", each
\* as [speaker, content]; the fixed instruction before them and the closing
\* "TRIAGE A.I.:" are the same for every call
build_medical_prompt(symptoms, image_analysis, conversation_history) ==
    LET n == Len(conversation_history)
        last_five == IF n <= 5 THEN conversation_history
                     ELSE SubSeq(conversation_history, n - 4, n)
        line(t) == [ speaker |-> IF t.role = "user" THEN "Patient" ELSE "TRIAGE A.I.",
                     content |-> t.content ]
    IN  [ i \in 1..Len(last_five) |-> line(last_five[i]) ]
        \o << [ speaker |-> "Patient", content |-> symptoms ] >>
        \o (IF image_analysis # << >>
            THEN << [ speaker |-> "Image analysis", content |-> image_analysis ] >>
            ELSE << >>)

\* the history of a session after k completed requests with text prior_text
RECURSIVE prior_history(_)
prior_history(k) ==
    IF k = 0 THEN << >>
    ELSE last_ten(prior_history(k - 1)
                  \o << turn("user", preprocessed(prior_text)),
                        turn("assistant",
                             rule_based_response(preprocessed(prior_text),
                                 rule_outcome_of(preprocessed(prior_text)).level)) >>)

MaxPrior ==
    5

NoOutcome ==
    [ level |-> "none", confidence |-> NotANumber, path |-> "none" ]

----------------------------------------------------------------------------
\* a variant without the try / except around the body of analyze_symptoms
after_construction_unhandled(raises) ==
    IF raises THEN "raised" ELSE "analyzed"

\* analyze_symptoms: the pc after result construction; the try / except
\* around the whole body returns a result whether construction raised or not
after_construction(raises) ==
    "analyzed"

\* get_enhanced_triage_assessment: `except ImportError` and `except Exception`
\* between them catch every failure of the import and of assess_symptoms
caught_by_integration(failure) ==
    failure \in {"ImportError", "error"}

----------------------------------------------------------------------------
VARIABLES
    entry_point,
    sc_text, sc_pc, sc_result,
    openai_client, triage_model,
    pc, text_input, image_data, image_analysis, combined_input,
    tiers, raised_in, openai_outcome, triage_assessment, result, response,
    enhanced_import, classifier, conversation_context, heap,
    e_pc, symptoms, session_id, processed_symptoms, conversation_history,
    ai_response, e_result, history_before, clear_raised,
    sn_text, sn_pc, sn_out,
    db_connection, healthcare_resources, r_pc, triage_level, max_distance, resources

sanitizer_vars == << sn_text, sn_pc, sn_out >>

resource_vars ==
    << db_connection, healthcare_resources, r_pc, triage_level, max_distance, resources >>

tool_vars == << sanitizer_vars, resource_vars >>

scoring_vars == << sc_text, sc_pc, sc_result >>

config_vars == << openai_client, triage_model >>

request_vars ==
    << pc, text_input, image_data, image_analysis, combined_input,
       tiers, raised_in, openai_outcome, triage_assessment, result, response >>

engine_vars == << config_vars, request_vars >>

memory_vars == << conversation_context, heap >>

call_vars ==
    << e_pc, symptoms, session_id, processed_symptoms, conversation_history,
       ai_response, e_result, history_before >>

enhanced_vars == << enhanced_import, classifier, clear_raised, memory_vars, call_vars >>

vars == << entry_point, tool_vars, scoring_vars, engine_vars, enhanced_vars >>

ImageInputs ==
    {"none", "dark", "low_contrast", "clear", "corrupt"}

SanitizerIdle ==
    /\ sn_text = << >>
    /\ sn_pc = "off"
    /\ sn_out = << >>

ResourcesIdle ==
    /\ db_connection = "none"
    /\ healthcare_resources = << >>
    /\ r_pc = "off"
    /\ triage_level = "none"
    /\ max_distance = 0
    /\ resources = << >>

ScoringIdle ==
    /\ sc_text = << >>
    /\ sc_pc = "off"
    /\ sc_result = NoOutcome

EngineIdle ==
    /\ pc = "idle"
    /\ text_input = << >>
    /\ image_data = "none"
    /\ image_analysis = << >>
    /\ combined_input = << >>
    /\ tiers = << >>
    /\ raised_in = {}
    /\ openai_outcome = "none"
    /\ triage_assessment = NoAssessment
    /\ result = NoTriageResult
    /\ response = "none"

EngineOff ==
    /\ openai_client = FALSE
    /\ triage_model = FALSE
    /\ EngineIdle

CallsIdle ==
    /\ e_pc = [ p \in Procs |-> "idle" ]
    /\ symptoms = [ p \in Procs |-> << >> ]
    /\ session_id = [ p \in Procs |-> "none" ]
    /\ processed_symptoms = [ p \in Procs |-> << >> ]
    /\ conversation_history = [ p \in Procs |-> 0 ]
    /\ ai_response = [ p \in Procs |-> << >> ]
    /\ e_result = [ p \in Procs |-> NoOutcome ]
    /\ history_before = [ p \in Procs |-> << >> ]
    /\ clear_raised = FALSE

MemoryEmpty ==
    /\ conversation_context = [ s \in Sessions |-> 0 ]
    /\ heap = [ i \in ObjIds |-> << >> ]

EnhancedOff ==
    /\ enhanced_import = "ok"
    /\ classifier = FALSE
    /\ MemoryEmpty
    /\ CallsIdle

----------------------------------------------------------------------------
(* The scoring model applied to one text.                                  *)

InitScoring ==
    /\ entry_point = "determine_triage_level"
    /\ sc_text \in ScoringTexts
    /\ sc_pc = "input"
    /\ sc_result = NoOutcome
    /\ EngineOff
    /\ enhanced_import = "ok"
    /\ classifier \in BOOLEAN
    /\ MemoryEmpty
    /\ CallsIdle
    /\ SanitizerIdle
    /\ ResourcesIdle

DetermineTriageLevel ==
    /\ sc_pc = "input"
    /\ \E o \in determine_triage_level(classifier, sc_text) : sc_result' = o
    /\ sc_pc' = "scored"
    /\ UNCHANGED << entry_point, tool_vars, sc_text, engine_vars, enhanced_vars >>

NextScoring ==
    DetermineTriageLevel

SpecScoring ==
    InitScoring /\ [][NextScoring]_vars

----------------------------------------------------------------------------
(* _postprocess_response called on a generated text, and called again on    *)
(* its own output.                                                          *)

InitSanitizer ==
    /\ entry_point = "postprocess_response"
    /\ sn_text \in SanitizerTexts
    /\ sn_pc = "input"
    /\ sn_out = << >>
    /\ ResourcesIdle
    /\ ScoringIdle
    /\ EngineOff
    /\ EnhancedOff

PostprocessResponse ==
    /\ sn_pc = "input"
    /\ sn_out' = postprocess_response(sn_text)
    /\ sn_pc' = "sanitized"
    /\ UNCHANGED << entry_point, sn_text, resource_vars, scoring_vars, engine_vars,
                    enhanced_vars >>

PostprocessAgain ==
    /\ sn_pc = "sanitized"
    /\ sn_text' = sn_out
    /\ sn_out' = postprocess_response(sn_out)
    /\ sn_pc' = "resanitized"
    /\ UNCHANGED << entry_point, resource_vars, scoring_vars, engine_vars, enhanced_vars >>

NextSanitizer ==
    \/ PostprocessResponse
    \/ PostprocessAgain

SpecSanitizer ==
    InitSanitizer /\ [][NextSanitizer]_vars

----------------------------------------------------------------------------
(* find_healthcare_resources called on a service whose database            *)
(* initialisation succeeded, failed, or left a connection that cannot be   *)
(* queried.                                                                 *)

InitResources ==
    /\ entry_point = "find_healthcare_resources"
    /\ db_connection \in {"none", "broken", "connected"}
    /\ healthcare_resources \in Stores
    /\ r_pc = "idle"
    /\ triage_level = "none"
    /\ max_distance = 0
    /\ resources = << >>
    /\ SanitizerIdle
    /\ ScoringIdle
    /\ EngineOff
    /\ EnhancedOff

FindHealthcareResources ==
    /\ r_pc \in {"idle", "returned"}
    \* max_distance of 1.0, 2.57 and the default 50.0 miles
    /\ \E level \in TriageLevels, distance \in {100, 257, 5000} :
          /\ triage_level' = level
          /\ max_distance' = distance
          /\ resources' = find_healthcare_resources(db_connection, healthcare_resources,
                                                    level, distance)
    /\ r_pc' = "returned"
    /\ UNCHANGED << entry_point, sanitizer_vars, db_connection, healthcare_resources,
                    scoring_vars, engine_vars, enhanced_vars >>

SpecResources ==
    InitResources /\ [][FindHealthcareResources]_vars

----------------------------------------------------------------------------
(* process_triage_request and TriageAIService.analyze_symptoms.            *)

InitEngine ==
    /\ openai_client \in BOOLEAN
    /\ triage_model \in BOOLEAN
    /\ EngineIdle

Init ==
    /\ entry_point = "process_triage_request"
    /\ InitEngine
    /\ ScoringIdle
    /\ EnhancedOff
    /\ SanitizerIdle
    /\ ResourcesIdle

\* process_triage_request up to the call of analyze_symptoms
ProcessTriageRequest ==
    /\ entry_point = "process_triage_request"
    /\ pc = "idle"
    /\ \E text \in EngineTexts, image \in ImageInputs :
        /\ text_input' = text
        /\ image_data' = image
        /\ IF validation_rejects(text)
           THEN pc' = "returned" /\ response' = "error"
           ELSE pc' = "analyze" /\ response' = "none"
    /\ UNCHANGED << entry_point, tool_vars, scoring_vars, config_vars, enhanced_vars,
                    image_analysis, combined_input, tiers, raised_in,
                    openai_outcome, triage_assessment, result >>

\* analyze_symptoms: image analysis and the combined input
AnalyzeImage ==
    /\ pc = "analyze"
    /\ image_analysis' = image_analysis_of(image_data)
    /\ combined_input' = combined_input_of(text_input, image_analysis_of(image_data))
    /\ raised_in' = IF image_data = "corrupt" THEN raised_in \cup {"image"} ELSE raised_in
    /\ pc' = "assess"
    /\ UNCHANGED << entry_point, tool_vars, scoring_vars, config_vars, enhanced_vars,
                    text_input, image_data, tiers, openai_outcome, triage_assessment,
                    result, response >>

\* _get_triage_assessment: the if / elif / else
GetTriageAssessment ==
    /\ pc = "assess"
    /\ LET tier == first_tier(openai_client, triage_model)
       IN  /\ tiers' = Append(tiers, tier)
           /\ pc' = tier_pc(tier)
    /\ UNCHANGED << entry_point, tool_vars, scoring_vars, config_vars, enhanced_vars,
                    text_input, image_data, image_analysis, combined_input,
                    raised_in, openai_outcome, triage_assessment, result, response >>

\* _get_openai_assessment: the awaited call completes
OpenAIResponds ==
    /\ pc = "openai"
    /\ \E outcome \in OpenAIOutcomes :
        /\ openai_outcome' = outcome.kind
        /\ IF openai_raises(outcome)
           THEN LET tier == tier_after_failure(openai_client, triage_model)
                IN  /\ tiers' = Append(tiers, tier)
                    /\ pc' = tier_pc(tier)
                    /\ raised_in' = raised_in \cup {"tier"}
                    /\ UNCHANGED triage_assessment
           ELSE /\ triage_assessment' = outcome
                /\ pc' = "build"
                /\ UNCHANGED << tiers, raised_in >>
    /\ UNCHANGED << entry_point, tool_vars, scoring_vars, config_vars, enhanced_vars,
                    text_input, image_data, image_analysis, combined_input,
                    result, response >>

\* _get_local_assessment: hands the text to the rule-based assessment
LocalAssessment ==
    /\ pc = "local"
    /\ tiers' = Append(tiers, "RuleBased")
    /\ pc' = "rule"
    /\ UNCHANGED << entry_point, tool_vars, scoring_vars, config_vars, enhanced_vars,
                    text_input, image_data, image_analysis, combined_input,
                    raised_in, openai_outcome, triage_assessment, result, response >>

\* _get_rule_based_assessment
RuleBasedAssessment ==
    /\ pc = "rule"
    /\ triage_assessment' = rule_based_assessment(combined_input)
    /\ pc' = "build"
    /\ UNCHANGED << entry_point, tool_vars, scoring_vars, config_vars, enhanced_vars,
                    text_input, image_data, image_analysis, combined_input,
                    tiers, raised_in, openai_outcome, result, response >>

\* analyze_symptoms: TriageResult construction, or the except branch
BuildResult ==
    /\ pc = "build"
    /\ \E elapsed \in 0..MaxElapsed :
        result' = build_result(triage_assessment, image_analysis, elapsed)
    /\ raised_in' = IF construction_raises(triage_assessment)
                    THEN raised_in \cup {"construction"} ELSE raised_in
    /\ pc' = after_construction(construction_raises(triage_assessment))
    /\ UNCHANGED << entry_point, tool_vars, scoring_vars, config_vars, enhanced_vars,
                    text_input, image_data, image_analysis, combined_input,
                    tiers, openai_outcome, triage_assessment, response >>

\* process_triage_request: the response is formatted and returned
Respond ==
    /\ pc = "analyzed"
    /\ response' = "success"
    /\ pc' = "returned"
    /\ UNCHANGED << entry_point, tool_vars, scoring_vars, config_vars, enhanced_vars,
                    text_input, image_data, image_analysis, combined_input,
                    tiers, raised_in, openai_outcome, triage_assessment, result >>

\* the caller has the response; the service is ready for the next request
NextRequest ==
    /\ pc = "returned"
    /\ pc' = "idle"
    /\ text_input' = << >>
    /\ image_data' = "none"
    /\ image_analysis' = << >>
    /\ combined_input' = << >>
    /\ tiers' = << >>
    /\ raised_in' = {}
    /\ openai_outcome' = "none"
    /\ triage_assessment' = NoAssessment
    /\ result' = NoTriageResult
    /\ response' = "none"
    /\ UNCHANGED << entry_point, tool_vars, scoring_vars, config_vars, enhanced_vars >>

NextEngine ==
    \/ ProcessTriageRequest
    \/ AnalyzeImage
    \/ GetTriageAssessment
    \/ OpenAIResponds
    \/ LocalAssessment
    \/ RuleBasedAssessment
    \/ BuildResult
    \/ Respond
    \/ NextRequest

Next ==
    NextEngine

Spec ==
    Init /\ [][Next]_vars

----------------------------------------------------------------------------
(* ai_integration.get_enhanced_triage_assessment and                       *)
(* EnhancedTriageService.assess_symptoms.  Each request runs in a thread   *)
(* of its own; it takes one step per access to the shared conversation     *)
(* memory, and the statements that touch only its own locals are part of   *)
(* the step that follows them.  The requests served before the two that    *)
(* are modelled are in the initial memory.                                 *)

\* what the import, or conversation_context.get, raises for a call
call_failure(import_outcome, sid) ==
    IF import_outcome # "ok" THEN import_outcome
    ELSE IF sid = "unhashable" THEN "error"
    ELSE "none"

\* a variant in which the level is determined from the first turn of the
\* conversation instead of the current text
scored_text_first_turn(p) ==
    LET history == heap[conversation_history[p]]
    IN  IF history # << >> THEN history[1].content ELSE processed_symptoms[p]

\* assess_symptoms: the text handed to determine_triage_level
scored_text(p) ==
    processed_symptoms[p]

\* conversation_context.get(session_id, []) if session_id else []
stored_history(sid) ==
    IF sid \in Sessions /\ conversation_context[sid] # 0
    THEN heap[conversation_context[sid]] ELSE << >>

PriorCounts ==
    {0, MaxPrior - 1, MaxPrior}

InitMemory ==
    \E k \in PriorCounts :
        /\ conversation_context = [ s \in Sessions |-> IF s = "s1" /\ k > 0 THEN 1 ELSE 0 ]
        /\ heap = [ i \in ObjIds |-> IF i = 1 THEN prior_history(k) ELSE << >> ]

InitCalls ==
    /\ entry_point = "get_enhanced_triage_assessment"
    /\ enhanced_import \in {"ok", "ImportError", "error"}
    /\ classifier \in BOOLEAN
    /\ CallsIdle
    /\ ScoringIdle
    /\ EngineOff
    /\ SanitizerIdle
    /\ ResourcesIdle

InitEnhanced ==
    /\ InitCalls
    /\ InitMemory

\* get_enhanced_triage_assessment: the import; then either the fallback, or
\* assess_symptoms up to conversation_context.get(session_id, [])
GetEnhancedTriageAssessment(p) ==
    /\ entry_point = "get_enhanced_triage_assessment"
    /\ e_pc[p] = "idle"
    /\ \A q \in Procs : q < p => e_pc[q] # "idle"
    /\ \E text \in SessionTexts, sid \in SessionArgs :
        /\ symptoms' = [ symptoms EXCEPT ![p] = text ]
        /\ session_id' = [ session_id EXCEPT ![p] = sid ]
        /\ history_before' = [ history_before EXCEPT ![p] = stored_history(sid) ]
        /\ IF call_failure(enhanced_import, sid) = "none"
           THEN /\ processed_symptoms' =
                        [ processed_symptoms EXCEPT ![p] = preprocessed(text) ]
                /\ conversation_history' =
                        [ conversation_history EXCEPT ![p] =
                            IF sid \in Sessions /\ conversation_context[sid] # 0
                            THEN conversation_context[sid]
                            ELSE fresh_object(conversation_context, conversation_history) ]
                /\ e_pc' = [ e_pc EXCEPT ![p] = "append_user" ]
                /\ UNCHANGED e_result
           ELSE IF caught_by_integration(call_failure(enhanced_import, sid))
           THEN /\ e_pc' = [ e_pc EXCEPT ![p] = "returned" ]
                /\ e_result' = [ e_result EXCEPT ![p] = get_fallback_assessment(text) ]
                /\ UNCHANGED << processed_symptoms, conversation_history >>
           ELSE /\ e_pc' = [ e_pc EXCEPT ![p] = "raised" ]
                /\ UNCHANGED << e_result, processed_symptoms, conversation_history >>
    /\ UNCHANGED << entry_point, tool_vars, scoring_vars, engine_vars, enhanced_import, classifier, clear_raised,
                    memory_vars, ai_response >>

\* variant: the patient turn is put at the head of the list
InsertUserFirst(p) ==
    /\ e_pc[p] = "append_user"
    /\ heap' = [ heap EXCEPT ![conversation_history[p]] =
                    << turn("user", processed_symptoms[p]) >> \o @ ]
    /\ e_pc' = [ e_pc EXCEPT ![p] = "generate" ]
    /\ UNCHANGED << entry_point, tool_vars, scoring_vars, engine_vars, enhanced_import, classifier, clear_raised,
                    conversation_context, symptoms, session_id,
                    processed_symptoms, conversation_history, ai_response, e_result,
                    history_before >>

\* conversation_history.append({"role": "user", ...})
AppendUser(p) ==
    /\ e_pc[p] = "append_user"
    /\ heap' = [ heap EXCEPT ![conversation_history[p]] =
                    Append(@, turn("user", processed_symptoms[p])) ]
    /\ e_pc' = [ e_pc EXCEPT ![p] = "generate" ]
    /\ UNCHANGED << entry_point, tool_vars, scoring_vars, engine_vars, enhanced_import, classifier, clear_raised,
                    conversation_context, symptoms, session_id,
                    processed_symptoms, conversation_history, ai_response, e_result,
                    history_before >>

\* generate_medical_response (no generator is loaded: the rule-based
\* response), then conversation_history.append({"role": "assistant", ...})
AppendAssistant(p) ==
    /\ e_pc[p] = "generate"
    /\ \E o \in determine_triage_level(classifier, processed_symptoms[p]) :
        LET reply == rule_based_response(processed_symptoms[p], o.level)
        IN  /\ ai_response' = [ ai_response EXCEPT ![p] = reply ]
            /\ heap' = [ heap EXCEPT ![conversation_history[p]] =
                            Append(@, turn("assistant", reply)) ]
    /\ e_pc' = [ e_pc EXCEPT ![p] = "update" ]
    /\ UNCHANGED << entry_point, tool_vars, scoring_vars, engine_vars, enhanced_import, classifier, clear_raised,
                    conversation_context, symptoms, session_id,
                    processed_symptoms, conversation_history, e_result, history_before >>

\* if session_id: conversation_context[session_id] = conversation_history[-10:];
\* then determine_triage_level, the response dictionary and its conversion by
\* get_enhanced_triage_assessment; the locals die with the return
ReturnAssessment(p) ==
    /\ e_pc[p] = "update"
    /\ LET refs == [ conversation_history EXCEPT ![p] = 0 ]
       IN  /\ conversation_history' = refs
           /\ IF session_id[p] # "none"
              THEN LET kept  == [ conversation_context EXCEPT ![session_id[p]] = 0 ]
                       new   == fresh_object(kept, refs)
                       ctx   == [ conversation_context EXCEPT ![session_id[p]] = new ]
                       saved == last_ten(heap[conversation_history[p]])
                   IN  /\ conversation_context' = ctx
                       /\ heap' = collect([ heap EXCEPT ![new] = saved ], ctx, refs)
              ELSE /\ UNCHANGED conversation_context
                   /\ heap' = collect(heap, conversation_context, refs)
    /\ \E o \in determine_triage_level(classifier, scored_text(p)) :
        e_result' = [ e_result EXCEPT ![p] = o ]
    /\ history_before' = [ history_before EXCEPT ![p] = << >> ]
    /\ e_pc' = [ e_pc EXCEPT ![p] = "returned" ]
    /\ UNCHANGED << entry_point, tool_vars, scoring_vars, engine_vars, enhanced_import, classifier, clear_raised,
                    symptoms, session_id, processed_symptoms, ai_response >>

\* a request is abandoned while generate_medical_response is pending (its
\* thread is stopped, or an exception that `except Exception` does not catch
\* passes through): nothing after line 403 runs and the locals die
CancelRequest(p) ==
    /\ e_pc[p] = "generate"
    /\ e_pc' = [ e_pc EXCEPT ![p] = "cancelled" ]
    /\ LET refs == [ conversation_history EXCEPT ![p] = 0 ]
       IN  /\ conversation_history' = refs
           /\ heap' = collect(heap, conversation_context, refs)
    /\ UNCHANGED << entry_point, tool_vars, scoring_vars, engine_vars, enhanced_import,
                    classifier, clear_raised, conversation_context, symptoms, session_id,
                    processed_symptoms, ai_response, e_result, history_before >>

\* clear_conversation_context
ClearConversationContext(s) ==
    /\ entry_point = "get_enhanced_triage_assessment"
    /\ enhanced_import = "ok"
    /\ LET after == clear_conversation_context(conversation_context, heap,
                                               conversation_history, s)
       IN  /\ conversation_context' = after.context
           /\ heap' = after.heap
           /\ clear_raised' = (clear_raised \/ after.raised)
    /\ UNCHANGED << entry_point, tool_vars, scoring_vars, engine_vars, enhanced_import,
                    classifier, call_vars >>

NextEnhanced ==
    \/ \E p \in Procs :
        \/ GetEnhancedTriageAssessment(p)
        \/ AppendUser(p)
        \/ AppendAssistant(p)
        \/ ReturnAssessment(p)
    \/ \E s \in Sessions : ClearConversationContext(s)

SpecEnhanced ==
    InitEnhanced /\ [][NextEnhanced]_vars

CallProgress(p) ==
    \/ AppendUser(p)
    \/ AppendAssistant(p)
    \/ ReturnAssessment(p)

\* requests on the service, some of them abandoned; no session is cleared
NextRequests ==
    \E p \in Procs :
        \/ GetEnhancedTriageAssessment(p)
        \/ CallProgress(p)
        \/ CancelRequest(p)

SpecRequests ==
    InitEnhanced /\ [][NextRequests]_vars

\* one caller: a request, or a clear, starts when no request is in progress
NextSequential ==
    \/ \E p \in Procs :
        /\ \A q \in Procs \ {p} : e_pc[q] \in {"idle", "returned", "raised"}
        /\ \/ GetEnhancedTriageAssessment(p)
           \/ CallProgress(p)
    \/ /\ \A q \in Procs : e_pc[q] \in {"idle", "returned", "raised"}
       /\ \E s \in Sessions : ClearConversationContext(s)

SpecSequential ==
    InitEnhanced /\ [][NextSequential]_vars

----------------------------------------------------------------------------
(* Both entry points, under the scheduling the runtime gives: a handler    *)
(* that can take a step takes it, and the awaited external call completes  *)
(* (with a response, an error or the client's timeout).                    *)

InitBoth ==
    \/ Init
    \/ InitCalls /\ MemoryEmpty

EngineProgress ==
    \/ AnalyzeImage
    \/ GetTriageAssessment
    \/ OpenAIResponds
    \/ LocalAssessment
    \/ RuleBasedAssessment
    \/ BuildResult
    \/ Respond

NextBoth ==
    \/ NextEngine
    \/ NextEnhanced

FairSpec ==
    /\ InitBoth
    /\ [][NextBoth]_vars
    /\ WF_vars(EngineProgress)
    /\ \A p \in Procs : WF_vars(CallProgress(p))

----------------------------------------------------------------------------
(* Properties of the decision engine (specification Spec).                 *)

\* C1: whenever analyze_symptoms has returned a result for a text that is not
\* empty after trimming, whatever the external assessor did (success, error,
\* any payload), the result's level is one of emergency, urgent, routine,
\* self_care and its confidence is a number in [0, 1]
C1_ResultInRange ==
    pc = "analyzed" =>
        /\ result.level \in TriageLevels
        /\ InUnitInterval(result.confidence)

\* C3: the tiers of one request are attempted in the order ExternalAI,
\* LocalClassifier, RuleBased and none is entered twice; when ExternalAI has
\* failed and a local classifier is loaded, LocalClassifier is the tier
\* attempted next; RuleBased is attempted only when no local classifier is
\* loaded or right after LocalClassifier
C3_TierOrder ==
    LET order   == << "ExternalAI", "LocalClassifier", "RuleBased" >>
        rank(t) == CHOOSE i \in 1..3 : order[i] = t
    IN  /\ \A i, j \in DOMAIN tiers : i < j => rank(tiers[i]) < rank(tiers[j])
        /\ (openai_outcome \in {"error", "unparsable"} /\ triage_model)
                => (Len(tiers) >= 2 /\ tiers[2] = "LocalClassifier")
        /\ \A i \in DOMAIN tiers :
                tiers[i] = "RuleBased"
                    => (~triage_model \/ (i > 1 /\ tiers[i - 1] = "LocalClassifier"))

\* C4: within one request the external assessor is attempted at most once
\* (no retry after a failure), and when no client is configured it is not
\* attempted at all: the first tier entered is then a later one
C4_ExternalAIAtMostOnce ==
    /\ Cardinality({ i \in DOMAIN tiers : tiers[i] = "ExternalAI" }) <= 1
    /\ ~openai_client =>
            /\ \A i \in DOMAIN tiers : tiers[i] # "ExternalAI"
            /\ openai_outcome = "none"
            /\ pc \in {"build", "analyzed"} => tiers # << >>

\* a request whose external call failed has completed on a later tier
C4_FailedCallCompleted ==
    /\ pc = "analyzed"
    /\ openai_client
    /\ openai_outcome = "error"
    /\ Len(tiers) = 2

\* C5: when the external assessor answered with a malformed payload (content
\* that does not parse, or an object lacking a required field), the request
\* ends on the RuleBased tier and its result has the level and confidence the
\* RuleBased tier alone gives for the request's text
C5_MalformedFallsBackToRules ==
    (/\ pc = "analyzed"
     /\ \/ openai_outcome = "unparsable"
        \/ openai_outcome = "object" /\ ~(RequiredFields \subseteq triage_assessment.keys))
        => /\ tiers[Len(tiers)] = "RuleBased"
           /\ result.level = rule_based_assessment(text_input).level
           /\ FracEq(result.confidence, rule_based_assessment(text_input).confidence)

\* C7 as stated: whenever an exception was raised inside analyze_symptoms, in
\* image analysis, in the tier chain or in result construction, the result
\* returned is the safe default (routine, 0.5, processing time 0)
C7_AnyExceptionGivesSafeDefault ==
    (pc = "analyzed" /\ raised_in # {})
        => /\ result.level = "routine"
           /\ FracEq(result.confidence, Frac(1, 2))
           /\ result.processing_time = 0

\* C7 amended: no exception leaves analyze_symptoms; an exception reaching its
\* handler (result construction from an assessment that is not an object or
\* lacks a required field) gives the safe default: level routine, confidence
\* 0.5, processing time 0; exceptions in image analysis and in the tier chain
\* are absorbed where they occur and the result carries the level and
\* confidence of the assessment the tier chain produced
C7_SafeDefaultOnConstructionError ==
    /\ pc # "raised"
    /\ (pc = "analyzed" /\ "construction" \in raised_in)
            => /\ result.level = "routine"
               /\ FracEq(result.confidence, Frac(1, 2))
               /\ InUnitInterval(result.confidence)
               /\ result.processing_time = 0
    /\ (pc = "analyzed" /\ "construction" \notin raised_in)
            => /\ result.level = triage_assessment.level
               /\ result.confidence = triage_assessment.confidence

\* result construction raised on the external assessor's payload and the
\* request has come back from analyze_symptoms
C7_ConstructionRaised ==
    /\ pc = "analyzed"
    /\ "construction" \in raised_in
    /\ openai_outcome \in {"object", "nonobject"}

----------------------------------------------------------------------------
(* Properties of the scoring model (specification SpecScoring).            *)

\* C8: on the rule path, when the emergency, urgent and routine scores of the
\* text are all zero, determine_triage_level returns level routine with
\* confidence 0.5
C8_NoSignalIsRoutine ==
    (/\ sc_pc = "scored"
     /\ sc_result.path = "rule"
     /\ total_score(rule_scores(lower(sc_text))) = 0)
        => /\ sc_result.level = "routine"
           /\ FracEq(sc_result.confidence, Frac(1, 2))

\* C9: on the rule path the level returned has a score that no other level
\* exceeds, and when the maximum is positive no level earlier in the order
\* emergency, urgent, routine has the same score
C9_MaxScoreWithPriority ==
    (sc_pc = "scored" /\ sc_result.path = "rule") =>
        LET scores   == rule_scores(lower(sc_text))
            priority == << "emergency", "urgent", "routine" >>
        IN  \E k \in 1..3 :
                /\ sc_result.level = priority[k]
                /\ \A j \in 1..3 : scores[priority[j]] <= scores[priority[k]]
                /\ scores[priority[k]] > 0
                        => \A j \in 1..(k - 1) : scores[priority[j]] < scores[priority[k]]

\* a text whose urgent score equals its emergency or its routine score, at a
\* positive maximum, has been scored on the rule path
C9_TieAtPositiveMaximum ==
    /\ sc_pc = "scored"
    /\ sc_result.path = "rule"
    /\ LET scores == rule_scores(lower(sc_text))
       IN  /\ scores.urgent > 0
           /\ \/ scores.emergency = scores.urgent /\ scores.routine < scores.urgent
              \/ scores.routine = scores.urgent /\ scores.emergency < scores.urgent

----------------------------------------------------------------------------
(* Properties of the conversational service (specification SpecEnhanced).  *)

\* C10: two calls that were given the same text and were answered on the rule
\* path have the same level and the same confidence, whatever their session
\* ids, the stored conversations and the calls and clears in between
C10_RuleTierHistoryIndependent ==
    \A p, q \in Procs :
        (/\ e_pc[p] = "returned" /\ e_pc[q] = "returned"
         /\ symptoms[p] = symptoms[q]
         /\ e_result[p].path = "rule" /\ e_result[q].path = "rule")
            => /\ e_result[p].level = e_result[q].level
               /\ FracEq(e_result[p].confidence, e_result[q].confidence)
               /\ e_result[p].level = rule_outcome_of(preprocessed(symptoms[p])).level

\* two calls with the same matching text, in different sessions of which one
\* has a stored conversation, have both been answered on the rule path
C10_SameTextTwoSessions ==
    /\ e_pc[1] = "returned" /\ e_pc[2] = "returned"
    /\ symptoms[1] = symptoms[2]
    /\ symptoms[1] # << >>
    /\ session_id[1] = "s1" /\ session_id[2] = "s2"
    /\ e_result[1].path = "rule" /\ e_result[2].path = "rule"
    /\ conversation_context["s1"] # 0
    /\ Len(heap[conversation_context["s1"]]) > 2

----------------------------------------------------------------------------
(* Properties of both entry points (specification FairSpec).               *)

\* C2: analyze_symptoms and get_enhanced_triage_assessment never raise and
\* always eventually return a defined result, whatever fails on the way (the
\* external assessor, image analysis, result construction, the import of the
\* enhanced service, a run-time error in it, the classifier)
C2_AlwaysReturns ==
    /\ [](pc # "raised" /\ \A p \in Procs : e_pc[p] # "raised")
    /\ [](pc = "analyzed" => result.level # "none")
    /\ [](\A p \in Procs : e_pc[p] = "returned" => e_result[p].level # "none")
    /\ (pc = "analyze") ~> (pc = "analyzed")
    /\ \A p \in Procs : (e_pc[p] \notin {"idle", "returned"}) ~> (e_pc[p] = "returned")

\* a request in which image analysis and the external call both failed has
\* been answered
C2_ReturnedAfterFailures ==
    /\ pc = "returned"
    /\ response = "success"
    /\ raised_in = {"image", "tier"}

\* C6: no tier and no scoring model is invoked with a text that is empty,
\* whitespace-only or empty after normalisation, on either entry path:
\* process_triage_request and get_enhanced_triage_assessment / assess_symptoms
C6_NoAssessmentOfEmptyText ==
    /\ tiers # << >> => strip(text_input) # << >>
    /\ \A p \in Procs :
            e_pc[p] \in {"update", "returned"} => preprocessed(symptoms[p]) # << >>

----------------------------------------------------------------------------
(* Properties of the sanitizer (specification SpecSanitizer).              *)

\* C11: the output of the sanitizer contains no occurrence (as a phrase,
\* ignoring case) of a diagnostic-assertion pattern "I diagnose", "you have",
\* "you've got", "it's definitely" and none of a false-reassurance phrase
\* "don't worry", "it's nothing", "you'll be fine"
C11_NoForbiddenPhraseInOutput ==
    sn_pc \in {"sanitized", "resanitized"} =>
        \A phrase \in Range(diagnostic_patterns) \cup Range(reassurance_phrases) :
            \A i \in 1..Len(sn_out) : ~phrase_at(phrase, sn_out, i)

\* C12: the sanitizer appends the disclaimer sentence exactly when the text
\* after the replacements contains no phrase "consult ... healthcare
\* professional" (ignoring case): every output contains such a phrase, a text
\* that contains one already gets no second one, and sanitizing a sanitized
\* text returns it unchanged
C12_DisclaimerExactlyWhenMissing ==
    LET word_at(word, text, i) ==
            /\ i + Len(word) - 1 <= Len(text)
            /\ \A j \in 1..Len(word) : char_lower(text[i + j - 1]) = word[j]
        consult == << "c","o","n","s","u","l","t" >>
        whom    == << "h","e","a","l","t","h","c","a","r","e"," ",
                      "p","r","o","f","e","s","s","i","o","n","a","l" >>
        has_disclaimer(text) ==
            \E i \in 1..Len(text) :
                /\ word_at(consult, text, i)
                /\ \E j \in (i + Len(consult))..Len(text) : word_at(whom, text, j)
        replaced == replaced_response(sn_text)
    IN  /\ sn_pc = "sanitized" =>
                /\ has_disclaimer(sn_out)
                /\ has_disclaimer(replaced) => sn_out = replaced
                /\ ~has_disclaimer(replaced) => sn_out = replaced \o disclaimer_sentence
        /\ sn_pc = "resanitized" => sn_out = sn_text

----------------------------------------------------------------------------
(* Properties of the conversational service's texts and memory             *)
(* (specification SpecEnhanced).                                           *)

\* C13: every response text built by the rule-based tier, for each level and
\* each combination of guidance and follow-up questions, contains a phrase
\* "consult ... healthcare professional" (ignoring case) as it stands
C13_RuleResponsesCarryDisclaimer ==
    LET word_at(word, text, i) ==
            /\ i + Len(word) - 1 <= Len(text)
            /\ \A j \in 1..Len(word) : char_lower(text[i + j - 1]) = word[j]
        consult == << "c","o","n","s","u","l","t" >>
        whom    == << "h","e","a","l","t","h","c","a","r","e"," ",
                      "p","r","o","f","e","s","s","i","o","n","a","l" >>
        has_disclaimer(text) ==
            \E i \in 1..Len(text) :
                /\ word_at(consult, text, i)
                /\ \E j \in (i + Len(consult))..Len(text) : word_at(whom, text, j)
    IN  \A p \in Procs :
            (e_pc[p] \in {"update", "returned"} /\ ai_response[p] # << >>)
                => has_disclaimer(expand(ai_response[p]))

\* C14: in every reachable state, between the steps of a request in progress
\* too, the stored history of every session has at most 10 turns
C14_StoredHistoryAtMostTen ==
    \A s \in Sessions :
        conversation_context[s] # 0 => Len(heap[conversation_context[s]]) <= 10

\* C15: clear_conversation_context(s) leaves session s absent, with a history
\* that reads as empty, and leaves the other sessions and the requests as they
\* were; on an absent session it changes nothing and raises no error, so a
\* second clear gives the state of the first; an absent session becomes
\* present again only when a request for it stores the list it appended to
C15_ClearRemovesSession ==
    /\ [](~clear_raised)
    /\ [](\A s \in Sessions :
            LET once  == clear_conversation_context(conversation_context, heap,
                                                    conversation_history, s)
                twice == clear_conversation_context(once.context, once.heap,
                                                    conversation_history, s)
            IN  /\ ~once.raised /\ ~twice.raised
                /\ once.context[s] = 0
                /\ \A t \in Sessions \ {s} :
                        /\ once.context[t] = conversation_context[t]
                        /\ conversation_context[t] = 0
                            \/ once.heap[once.context[t]] = stored_history(t)
                /\ twice.context = once.context
                /\ twice.heap = once.heap)
    /\ [][\A s \in Sessions :
            /\ (conversation_context[s] # 0 /\ conversation_context'[s] = 0)
                    => /\ stored_history(s)' = << >>
                       /\ \A t \in Sessions \ {s} : stored_history(t)' = stored_history(t)
                       /\ UNCHANGED call_vars
            /\ (conversation_context[s] = 0 /\ conversation_context'[s] # 0)
                    => \E p \in Procs :
                            /\ session_id[p] = s
                            /\ e_pc[p] = "update" /\ e_pc'[p] = "returned"
                            /\ stored_history(s)' = last_ten(heap[conversation_history[p]])
         ]_vars

\* a session that had a history when a request for it started is absent while
\* that request is still in progress: it has been cleared
C15_ClearedDuringRequest ==
    \E p \in Procs :
        /\ e_pc[p] = "update"
        /\ session_id[p] \in Sessions
        /\ history_before[p] # << >>
        /\ conversation_context[session_id[p]] = 0

----------------------------------------------------------------------------
(* Properties of concurrent and abandoned requests (specification          *)
(* SpecRequests).                                                          *)

\* C16: when two requests for the same session have both completed, the
\* session's stored history ends with the patient and assistant turns of both,
\* each request's two turns adjacent, for every interleaving of their steps
C16_NoLostUpdate ==
    (/\ e_pc[1] = "returned" /\ e_pc[2] = "returned"
     /\ enhanced_import = "ok"
     /\ session_id[1] \in Sessions
     /\ session_id[1] = session_id[2])
        => LET history == stored_history(session_id[1])
               n       == Len(history)
               turns(p) == << turn("user", processed_symptoms[p]),
                              turn("assistant", ai_response[p]) >>
           IN  /\ n >= 4
               /\ SubSeq(history, n - 3, n) \in { turns(1) \o turns(2), turns(2) \o turns(1) }

\* C17: when a request has been abandoned while its response was being
\* generated, and no other request ran, the stored history of its session is
\* what it was before the request started, for a new and for an existing
\* session
C17_AbandonedRequestLeavesNoTurn ==
    \A p \in Procs :
        (e_pc[p] = "cancelled" /\ \A q \in Procs \ {p} : e_pc[q] = "idle")
            => stored_history(session_id[p]) = history_before[p]

----------------------------------------------------------------------------
\* C18: every entry returned by find_healthcare_resources is eligible for
\* the requested level: only hospitals for emergency, only hospitals and
\* urgent care for urgent, any type for routine and self_care.
C18_ReturnedEntriesEligible ==
    r_pc = "returned" =>
        \A i \in 1..Len(resources) :
            /\ triage_level = "emergency" => resources[i].type = "hospital"
            /\ triage_level = "urgent" => resources[i].type \in {"hospital", "urgent_care"}
            /\ resources[i].type \in {"hospital", "urgent_care", "clinic", "pharmacy"}

\* C19: the returned list is ordered by non-decreasing distance and has at
\* most 10 entries.
C19_SortedAndAtMostTen ==
    r_pc = "returned" =>
        /\ Len(resources) <= ResultLimit
        /\ \A i \in 1..(Len(resources) - 1) :
              resources[i].distance <= resources[i + 1].distance

\* C20: the reported distance of every returned entry (tenths of a mile) is
\* non-negative and at most max_distance (hundredths of a mile).
C20_ReportedDistanceWithinMax ==
    r_pc = "returned" =>
        \A i \in 1..Len(resources) :
            /\ resources[i].distance >= 0
            /\ resources[i].distance * 10 <= max_distance

\* C21: find_healthcare_resources always returns to its caller, and when the
\* store is unavailable (no connection, or the query fails) the returned
\* list is the fixed fallback list, which holds a hospital and an urgent
\* care entry.
C21_FallbackWhenUnavailable ==
    /\ r_pc \in {"off", "idle", "returned"}
    /\ (r_pc = "returned" /\ db_connection \in {"none", "broken"}) =>
          /\ resources = get_mock_resources
          /\ \E i \in 1..Len(resources) : resources[i].type = "hospital"
          /\ \E i \in 1..Len(resources) : resources[i].type = "urgent_care"

C21_QueryFailed ==
    /\ r_pc = "returned"
    /\ db_connection = "broken"
    /\ healthcare_resources # << >>
    /\ Len(resources) = 2

C22_ScoresAccumulateIndependently ==
    (sc_pc = "scored" /\ ~classifier) =>
        LET text_lower == lower(sc_text)
            hits(level) ==
                Cardinality({ i \in DOMAIN guideline_keywords(level) :
                                str_in(guideline_keywords(level)[i], text_lower) })
            breathing == \E i \in DOMAIN breathing_patterns :
                            str_in(breathing_patterns[i], text_lower)
            pain == \E i \in DOMAIN severe_pain_patterns :
                            str_in(severe_pain_patterns[i], text_lower)
            expected ==
                [ emergency |-> 3 * hits("emergency") + (IF breathing THEN 5 ELSE 0)
                                                        + (IF pain THEN 3 ELSE 0),
                  urgent    |-> 2 * hits("urgent"),
                  routine   |-> hits("routine") ]
            sum == expected.emergency + expected.urgent + expected.routine
        IN  /\ rule_scores(text_lower) = expected
            /\ \A l \in {"emergency", "urgent", "routine"} :
                  expected[sc_result.level] >= expected[l]
            /\ sum > 0 => sc_result.confidence = Frac(expected[sc_result.level], sum)

C22_AllThreeLevelsScore ==
    /\ sc_pc = "scored"
    /\ ~classifier
    /\ rule_scores(lower(sc_text)).emergency >= 3
    /\ rule_scores(lower(sc_text)).urgent >= 2
    /\ rule_scores(lower(sc_text)).routine >= 1
    /\ sc_result.confidence.den =
          rule_scores(lower(sc_text)).emergency + rule_scores(lower(sc_text)).urgent
              + rule_scores(lower(sc_text)).routine

\* C23: when the sum of the three scores is positive, the confidence
\* returned on the rule path is (score of the returned level) / (sum of the
\* scores), a value between 1/3 and 1 inclusive.
C23_ConfidenceIsWinningShare ==
    (sc_pc = "scored" /\ ~classifier) =>
        LET scores == rule_scores(lower(sc_text))
            sum == scores.emergency + scores.urgent + scores.routine
        IN  sum > 0 =>
              /\ FracEq(sc_result.confidence, Frac(scores[sc_result.level], sum))
              /\ 3 * sc_result.confidence.num >= sc_result.confidence.den
              /\ sc_result.confidence.num <= sc_result.confidence.den
              /\ sc_result.confidence.den > 0

C23_ShareBelowOne ==
    /\ sc_pc = "scored"
    /\ ~classifier
    /\ sc_result.level = "urgent"
    /\ rule_scores(lower(sc_text)).emergency > 0
    /\ sc_result.confidence.num < sc_result.confidence.den

\* C24: the level of a result produced by the engine's RuleBased tier equals
\* the level the weighted-keyword scoring model returns on its rule path for
\* the same text.
C24_RuleTierIsScoringModel ==
    (/\ pc = "analyzed"
     /\ tiers # << >>
     /\ tiers[Len(tiers)] = "RuleBased"
     /\ triage_assessment.kind = "object")
        => triage_assessment.level = rule_path(expand(combined_input)).level

\* C25: in each request the patient turn is appended before the assistant
\* turn, and when no request is in progress the history of a session is a
\* suffix, in the same order, of the alternating sequence patient,
\* assistant, ... made of the earlier history and the turns of the completed
\* requests on that session, in the order in which the requests ran.
C25_TurnsInChronologicalOrder ==
    /\ [](
          (\A p \in Procs : e_pc[p] \in {"idle", "returned", "raised"}) =>
             \A s \in Sessions :
                LET turns_of(p) ==
                        IF e_pc[p] = "returned" /\ session_id[p] = s /\ enhanced_import = "ok"
                        THEN << turn("user", processed_symptoms[p]),
                                turn("assistant", ai_response[p]) >>
                        ELSE << >>
                    h == stored_history(s)
                IN  /\ \E k \in 0..MaxPrior :
                          LET full == prior_history(k) \o turns_of(1) \o turns_of(2)
                          IN  /\ Len(h) <= Len(full)
                              /\ h = SubSeq(full, Len(full) - Len(h) + 1, Len(full))
                    /\ \A i \in 1..Len(h) :
                          h[i].role = IF (Len(h) - i) % 2 = 0 THEN "assistant" ELSE "user"
         )
    /\ [][ \A p \in Procs :
              (e_pc[p] = "generate" /\ e_pc'[p] = "update") =>
                  LET list == heap'[conversation_history[p]]
                  IN  /\ Len(list) >= 2
                      /\ list[Len(list) - 1] = turn("user", processed_symptoms[p])
                      /\ list[Len(list)] = turn("assistant", ai_response'[p])
         ]_vars

C25_TwoRequestsOneSession ==
    /\ e_pc[1] = "returned"
    /\ e_pc[2] = "returned"
    /\ session_id[1] = "s1"
    /\ session_id[2] = "s1"
    /\ enhanced_import = "ok"
    /\ processed_symptoms[1] # processed_symptoms[2]
    /\ Len(stored_history("s1")) = 10

\* C26: when a request on session s completes, the stored history of s is
\* the last 10 elements of the history s had before the request followed by
\* the request's patient turn and its assistant turn: only the oldest turns
\* are evicted, no newer turn is dropped or moved.
C26_EvictionKeepsNewestTen ==
    [][ \A p \in Procs :
           (e_pc[p] = "update" /\ e_pc'[p] = "returned" /\ session_id[p] \in Sessions) =>
               LET appended == history_before[p]
                                  \o << turn("user", processed_symptoms[p]),
                                        turn("assistant", ai_response[p]) >>
                   kept == IF Len(appended) < 10 THEN Len(appended) ELSE 10
                   stored == heap'[conversation_context'[session_id[p]]]
               IN  /\ conversation_context'[session_id[p]] # 0
                   /\ Len(stored) = kept
                   /\ \A i \in 1..kept :
                         stored[i] = appended[Len(appended) - kept + i]
      ]_vars

\* two requests after an earlier history of at least 8 turns: 12 turns or
\* more were appended and the stored list holds the newest 10
C26_OldestTurnsEvicted ==
    /\ \A p \in Procs : e_pc[p] = "returned" /\ session_id[p] = "s1"
    /\ enhanced_import = "ok"
    /\ Len(stored_history("s1")) = 10
    /\ stored_history("s1")[1] = turn("user", preprocessed(prior_text))
    /\ stored_history("s1")[7] = turn("user", processed_symptoms[1])
    /\ stored_history("s1")[9] = turn("user", processed_symptoms[2])
    /\ stored_history("s1")[10] = turn("assistant", ai_response[2])

\* C27: the text of a result has passed through the sanitizer exactly when an
\* AI tier produced it: a generated summary is sanitized before the result is
\* returned, a rule-based text is not.
C27_SanitizedExactlyWhenGenerated ==
    (pc = "analyzed" /\ result # NoTriageResult) =>
        (result.summary = "generated" <=> sn_pc = "sanitized")

\* C28: the instruction built for a request holds the last 5 turns the
\* session had before the request (all of them when there are fewer), in
\* their order, followed by the request's patient text exactly once.
C28_PromptHasFivePriorTurns ==
    \A p \in Procs :
        e_pc[p] = "generate" =>
            LET prompt == build_medical_prompt(processed_symptoms[p], << >>,
                                               heap[conversation_history[p]])
                before == history_before[p]
                n == Len(before)
                context == IF n <= 5 THEN before ELSE SubSeq(before, n - 4, n)
            IN  /\ Len(prompt) = Len(context) + 1
                /\ \A i \in 1..Len(context) :
                      /\ prompt[i].content = context[i].content
                      /\ prompt[i].speaker =
                            IF context[i].role = "user" THEN "Patient" ELSE "TRIAGE A.I."
                /\ prompt[Len(prompt)] =
                      [ speaker |-> "Patient", content |-> processed_symptoms[p] ]

\* C29: a request whose text contains a breathing phrase ("can't breathe",
\* "difficulty breathing", "choking") is scored, after preprocess_symptoms,
\* with the +5 bonus: its emergency score is at least 5.
C29_BreathingBonusAfterPreprocess ==
    \A p \in Procs :
        (/\ e_pc[p] = "update"
         /\ ~classifier
         /\ any_in(breathing_patterns, lower(symptoms[p])))
            => rule_scores(lower(processed_symptoms[p])).emergency >= 5

====
